---------------------------- MODULE Spec2Model ----------------------------
(***************************************************************************)
(* A model of the ADCS rigid-body core: quaternion and vector algebra,     *)
(* Euler's equations (AngularVelocity::diff), the shared dynamics routine  *)
(* with the Kane damper, and the ForwardEuler and RungeKutta4 steps.       *)
(*                                                                         *)
(* Scalars.  The code computes in f32/f64.  The model computes the same    *)
(* expressions, in the same order, over exact numbers of the form          *)
(*     (n / d) * sqrt(r)      n integer, d >= 1, r >= 1 squarefree,        *)
(* which is closed under every operation the code uses on the values the   *)
(* model draws (+ and - of like radicals, *, /, sqrt of a rational, powi). *)
(* Two further values complete the domain:                                 *)
(*   NonFinite  the IEEE result of a division by zero or of the root of a  *)
(*              negative number (an infinity or a NaN);                    *)
(*   NotRep     a finite real the model cannot write down: a sum of unlike *)
(*              radicals, a nested radical, or a numerator, denominator or *)
(*              radicand above MaxMagnitude.                               *)
(* Rounding of the floating-point formats is not modelled.                 *)
(***************************************************************************)
EXTENDS Integers, Sequences, FiniteSets, TLC

(***************************************************************************)
(* Bounds of the model.                                                    *)
(***************************************************************************)
\* Largest numerator, denominator and radicand a number may have.
MaxMagnitude == 20000
\* Largest number of integrator steps in one run.
MaxSteps == 3
\* Largest coordinate of the integer test vectors of the algebra checks.
MaxCoord == 1

(***************************************************************************)
(* Exact scalars.                                                          *)
(***************************************************************************)
Abs(a) == IF a < 0 THEN -a ELSE a

RECURSIVE GCD(_, _)
GCD(a, b) == IF b = 0 THEN a ELSE GCD(b, a % b)

\* The largest s in lo..hi with s*s <= m (lo*lo <= m), by bisection.
RECURSIVE Isqrt(_, _, _)
Isqrt(m, lo, hi) ==
    IF lo >= hi THEN lo
    ELSE LET mid == (lo + hi + 1) \div 2
         IN IF mid * mid <= m THEN Isqrt(m, mid, hi) ELSE Isqrt(m, lo, mid - 1)

\* The largest s with s*s dividing m (m >= 1).
Largest(S) == CHOOSE s \in S : \A t \in S : t <= s

SquarePart(m) ==
    Largest({s \in 1..Isqrt(m, 1, IF m < 46340 THEN m ELSE 46340) : m % (s * s) = 0})

NonFinite == [k |-> "nonfinite", n |-> 0, d |-> 1, r |-> 1]
NotRep == [k |-> "notrep", n |-> 0, d |-> 1, r |-> 1]
Zero == [k |-> "fin", n |-> 0, d |-> 1, r |-> 1]

IsFin(a) == a.k = "fin"
IsZero(a) == a = Zero

\* The number (n/d)*sqrt(r) in lowest terms; d >= 1, r >= 1 squarefree.
Bounded(n, d, r) ==
    IF Abs(n) > MaxMagnitude \/ d > MaxMagnitude \/ r > MaxMagnitude
    THEN NotRep
    ELSE [k |-> "fin", n |-> n, d |-> d, r |-> r]

Lowest(n, d, r, g) == Bounded(n \div g, d \div g, r)

Mk(n, d, r) == IF n = 0 THEN Zero ELSE Lowest(n, d, r, GCD(Abs(n), d))

Rat(n, d) == Mk(n, d, 1)
Num(n) == Mk(n, 1, 1)
One == Num(1)

\* The result of an operation one of whose operands is not a finite exact
\* number: a non-finite operand wins over an unrepresentable one.
Special(a, b) == IF a.k = "nonfinite" \/ b.k = "nonfinite" THEN NonFinite ELSE NotRep

NegF(a) == IF IsFin(a) THEN [a EXCEPT !.n = -a.n] ELSE a

AddF(a, b) ==
    IF ~(IsFin(a) /\ IsFin(b)) THEN Special(a, b)
    ELSE IF IsZero(a) THEN b
    ELSE IF IsZero(b) THEN a
    ELSE IF a.r # b.r THEN NotRep
    ELSE Mk(a.n * b.d + b.n * a.d, a.d * b.d, a.r)

SubF(a, b) == AddF(a, NegF(b))

\* (n0/d0) * g * sqrt(rr), the factor g reduced against d0 by g3 = gcd(g, d0).
MulRoot(n0, d0, rr, gn, dn) ==
    IF Abs(n0) > MaxMagnitude \/ gn > MaxMagnitude THEN NotRep
    ELSE Mk(n0 * gn, dn, rr)

MulParts(n0, d0, g, rr, g3) == MulRoot(n0, d0, rr, g \div g3, d0 \div g3)

MulLowest(n0, d0, g, rr) == MulParts(n0, d0, g, rr, GCD(g, d0))

\* a * b with the numerators reduced crosswise (g1, g2) before multiplying;
\* sqrt(r1)*sqrt(r2) = g*sqrt((r1/g)*(r2/g)) for g = gcd(r1, r2).
MulCross(a, b, g1, g2, g) ==
    MulLowest((a.n \div g1) * (b.n \div g2), (a.d \div g2) * (b.d \div g1),
              g, (a.r \div g) * (b.r \div g))

MulF(a, b) ==
    IF a.k = "nonfinite" \/ b.k = "nonfinite" THEN NonFinite
    ELSE IF IsZero(a) \/ IsZero(b) THEN Zero
    ELSE IF ~(IsFin(a) /\ IsFin(b)) THEN NotRep
    ELSE MulCross(a, b, GCD(Abs(a.n), b.d), GCD(Abs(b.n), a.d), GCD(a.r, b.r))

\* 1/a:  1/((n/d)*sqrt(r)) = (d/(n*r))*sqrt(r);  1/0 is an infinity.
InvF(a) ==
    IF ~IsFin(a) THEN a
    ELSE IF IsZero(a) THEN NonFinite
    ELSE Mk((IF a.n < 0 THEN -1 ELSE 1) * a.d, Abs(a.n) * a.r, a.r)

DivF(a, b) == MulF(a, InvF(b))

\* sqrt(n/d) for n = sn*sn*tn and d = sd*sd*td:  (sn/(sd*td)) * sqrt(tn*td).
SqrtParts(n, d, sn, sd) ==
    Mk(sn, sd * (d \div (sd * sd)), (n \div (sn * sn)) * (d \div (sd * sd)))

\* f32::sqrt / f64::sqrt
sqrt(a) ==
    IF ~IsFin(a) THEN a
    ELSE IF IsZero(a) THEN Zero
    ELSE IF a.n < 0 THEN NonFinite
    ELSE IF a.r # 1 THEN NotRep
    ELSE SqrtParts(a.n, a.d, SquarePart(a.n), SquarePart(a.d))

\* f32::powi / f64::powi for the exponents the code uses (-2, -1, 2).
powi(a, e) ==
    IF e = 2 THEN MulF(a, a)
    ELSE IF e = -1 THEN InvF(a)
    ELSE IF e = -2 THEN InvF(MulF(a, a))
    ELSE NotRep

(***************************************************************************)
(* The records of the source: Quaternion (quaternion.rs), the three         *)
(* vectors, Inertia (inertia.rs), State (state.rs), KaneDamper (damper.rs)  *)
(* and the triple dynamics returns.  Every record of one type is written   *)
(* with its fields in one fixed order.  Option<KaneDamper> is the empty    *)
(* sequence (None) or a one-element sequence (Some).                       *)
(***************************************************************************)
Quaternion_new(w, x, y, z) == [w |-> w, x |-> x, y |-> y, z |-> z]

AngularVelocity_new(x, y, z) == [x |-> x, y |-> y, z |-> z]

Torque_new(x, y, z) == [x |-> x, y |-> y, z |-> z]

AngularMomentum_new(x, y, z) == [x |-> x, y |-> y, z |-> z]

Inertia_new(j1, j2, j3, j4, j5, j6) ==
    [j1 |-> j1, j2 |-> j2, j3 |-> j3, j4 |-> j4, j5 |-> j5, j6 |-> j6]

None == << >>
Some(d) == << d >>

State_new(inertia) ==
    [inertia |-> inertia,
     quaternion |-> Quaternion_new(One, Zero, Zero, Zero),
     angular_velocity |-> AngularVelocity_new(Zero, Zero, Zero),
     torque |-> Torque_new(Zero, Zero, Zero),
     damper |-> None,
     time |-> Zero]

KaneDamper_new(inertia, coefficient) ==
    [inertia |-> Inertia_new(inertia, inertia, inertia, Zero, Zero, Zero),
     angular_velocity |-> AngularVelocity_new(Zero, Zero, Zero),
     coefficient |-> coefficient]

Derivatives(qdot, wdot, wddot) == [qdot |-> qdot, wdot |-> wdot, wddot |-> wddot]

(***************************************************************************)
(* Float literals of the source.                                           *)
(***************************************************************************)
Half == Rat(1, 2)
Two == Num(2)
Sixth == DivF(One, Num(6))

(***************************************************************************)
(* Quaternion (quaternion.rs).                                             *)
(***************************************************************************)
Quaternion_unit == Quaternion_new(One, Zero, Zero, Zero)

Quaternion_norm(self) ==
    sqrt(AddF(AddF(AddF(MulF(self.w, self.w), MulF(self.x, self.x)),
                   MulF(self.y, self.y)),
              MulF(self.z, self.z)))

Quaternion_scale(self, s) ==
    [w |-> MulF(s, self.w), x |-> MulF(s, self.x),
     y |-> MulF(s, self.y), z |-> MulF(s, self.z)]

\* Variant: no renormalization.
Quaternion_unscaled(self) == self

Quaternion_normalize(self) ==
    Quaternion_scale(self, powi(Quaternion_norm(self), -1))

Quaternion_add(self, other) ==
    [w |-> AddF(self.w, other.w), x |-> AddF(self.x, other.x),
     y |-> AddF(self.y, other.y), z |-> AddF(self.z, other.z)]

Quaternion_sub(self, other) ==
    [w |-> SubF(self.w, other.w), x |-> SubF(self.x, other.x),
     y |-> SubF(self.y, other.y), z |-> SubF(self.z, other.z)]

Quaternion_neg(self) ==
    [w |-> NegF(self.w), x |-> NegF(self.x), y |-> NegF(self.y), z |-> NegF(self.z)]

\* Variant: the scalar term as a dot product (all four products added).
Quaternion_mul_dot(self, other) ==
    [w |-> AddF(AddF(AddF(MulF(self.w, other.w), MulF(self.x, other.x)),
                     MulF(self.y, other.y)),
                MulF(self.z, other.z)),
     x |-> SubF(AddF(AddF(MulF(self.w, other.x), MulF(other.w, self.x)),
                     MulF(self.y, other.z)),
                MulF(self.z, other.y)),
     y |-> SubF(AddF(AddF(MulF(self.w, other.y), MulF(other.w, self.y)),
                     MulF(self.z, other.x)),
                MulF(self.x, other.z)),
     z |-> SubF(AddF(AddF(MulF(self.w, other.z), MulF(other.w, self.z)),
                     MulF(self.x, other.y)),
                MulF(self.y, other.x))]

Quaternion_mul(self, other) ==
    [w |-> SubF(SubF(SubF(MulF(self.w, other.w), MulF(self.x, other.x)),
                     MulF(self.y, other.y)),
                MulF(self.z, other.z)),
     x |-> SubF(AddF(AddF(MulF(self.w, other.x), MulF(other.w, self.x)),
                     MulF(self.y, other.z)),
                MulF(self.z, other.y)),
     y |-> SubF(AddF(AddF(MulF(self.w, other.y), MulF(other.w, self.y)),
                     MulF(self.z, other.x)),
                MulF(self.x, other.z)),
     z |-> SubF(AddF(AddF(MulF(self.w, other.z), MulF(other.w, self.z)),
                     MulF(self.x, other.y)),
                MulF(self.y, other.x))]

\* Variant: the conjugate divided by the norm, not by its square.
Quaternion_inv_by_norm(self) ==
    Quaternion_scale([w |-> self.w, x |-> NegF(self.x),
                      y |-> NegF(self.y), z |-> NegF(self.z)],
                     powi(Quaternion_norm(self), -1))

Quaternion_inv(self) ==
    Quaternion_scale([w |-> self.w, x |-> NegF(self.x),
                      y |-> NegF(self.y), z |-> NegF(self.z)],
                     powi(Quaternion_norm(self), -2))

\* Variant: the product self * omega without the factor 1/2.
Quaternion_diff_unhalved(self, angular_velocity) ==
    Quaternion_mul(self, Quaternion_new(Zero, angular_velocity.x,
                                        angular_velocity.y, angular_velocity.z))

Quaternion_diff(self, angular_velocity) ==
    Quaternion_scale(
        Quaternion_mul(self, Quaternion_new(Zero, angular_velocity.x,
                                            angular_velocity.y, angular_velocity.z)),
        Half)

\* The x, y, z of a quaternion or vector as a three-vector.
VectorPart(v) == [x |-> v.x, y |-> v.y, z |-> v.z]

(***************************************************************************)
(* Torque (torque.rs).                                                     *)
(***************************************************************************)
Torque_scale(self, s) ==
    [x |-> MulF(s, self.x), y |-> MulF(s, self.y), z |-> MulF(s, self.z)]

Torque_add(self, other) ==
    [x |-> AddF(self.x, other.x), y |-> AddF(self.y, other.y),
     z |-> AddF(self.z, other.z)]

\* Variant: the torque returned with its sign kept.
Torque_neg_kept(self) == self

Torque_neg(self) == [x |-> NegF(self.x), y |-> NegF(self.y), z |-> NegF(self.z)]

\* Variant: the sandwich product without the inverse on the right.
Torque_rotated_by_q(self, q) ==
    Quaternion_mul(Quaternion_mul(q, Quaternion_new(Zero, self.x, self.y, self.z)), q)

Torque_rotated(self, q) ==
    Quaternion_mul(Quaternion_mul(q, Quaternion_new(Zero, self.x, self.y, self.z)),
                   Quaternion_inv(q))

Torque_rotate(self, q) == VectorPart(Torque_rotated(self, q))

(***************************************************************************)
(* AngularMomentum (angular_momentum.rs).                                  *)
(***************************************************************************)
AngularMomentum_product(inertia, angular_velocity) ==
    [x |-> AddF(AddF(MulF(inertia.j1, angular_velocity.x),
                     MulF(inertia.j6, angular_velocity.y)),
                MulF(inertia.j5, angular_velocity.z)),
     y |-> AddF(AddF(MulF(inertia.j6, angular_velocity.x),
                     MulF(inertia.j2, angular_velocity.y)),
                MulF(inertia.j4, angular_velocity.z)),
     z |-> AddF(AddF(MulF(inertia.j5, angular_velocity.x),
                     MulF(inertia.j4, angular_velocity.y)),
                MulF(inertia.j3, angular_velocity.z))]

AngularMomentum_rotated(self, q) ==
    Quaternion_mul(Quaternion_mul(q, Quaternion_new(Zero, self.x, self.y, self.z)),
                   Quaternion_inv(q))

AngularMomentum_rotate(self, q) == VectorPart(AngularMomentum_rotated(self, q))

(***************************************************************************)
(* AngularVelocity (angular_velocity.rs).                                  *)
(***************************************************************************)
AngularVelocity_rotated(self, q) ==
    Quaternion_mul(Quaternion_mul(q, Quaternion_new(Zero, self.x, self.y, self.z)),
                   Quaternion_inv(q))

AngularVelocity_rotate(self, q) == VectorPart(AngularVelocity_rotated(self, q))

AngularVelocity_scale(self, s) ==
    [x |-> MulF(s, self.x), y |-> MulF(s, self.y), z |-> MulF(s, self.z)]

AngularVelocity_add(self, other) ==
    [x |-> AddF(self.x, other.x), y |-> AddF(self.y, other.y),
     z |-> AddF(self.z, other.z)]

AngularVelocity_sub(self, other) ==
    [x |-> SubF(self.x, other.x), y |-> SubF(self.y, other.y),
     z |-> SubF(self.z, other.z)]

\* Variant: the determinant of the principal moments alone.
Inertia_det_principal(inertia) == MulF(MulF(inertia.j1, inertia.j2), inertia.j3)

\* Determinant of the inertia matrix, as diff computes it.
Inertia_det(inertia) ==
    AddF(AddF(MulF(inertia.j1,
                   SubF(MulF(inertia.j2, inertia.j3), powi(inertia.j4, 2))),
              MulF(inertia.j6,
                   SubF(MulF(inertia.j4, inertia.j5), MulF(inertia.j3, inertia.j6)))),
         MulF(inertia.j5,
              SubF(MulF(inertia.j4, inertia.j6), MulF(inertia.j2, inertia.j5))))

\* Components of the inverse inertia (Voigt notation), as diff computes them
\* from the determinant.
Inertia_cofactors_over(inertia, det) ==
    [j1 |-> DivF(SubF(MulF(inertia.j2, inertia.j3), powi(inertia.j4, 2)), det),
     j2 |-> DivF(SubF(MulF(inertia.j1, inertia.j3), powi(inertia.j5, 2)), det),
     j3 |-> DivF(SubF(MulF(inertia.j1, inertia.j2), powi(inertia.j6, 2)), det),
     j4 |-> DivF(SubF(MulF(inertia.j5, inertia.j6), MulF(inertia.j1, inertia.j4)), det),
     j5 |-> DivF(SubF(MulF(inertia.j4, inertia.j6), MulF(inertia.j2, inertia.j5)), det),
     j6 |-> DivF(SubF(MulF(inertia.j5, inertia.j4), MulF(inertia.j3, inertia.j6)), det)]

Inertia_inverse(inertia) == Inertia_cofactors_over(inertia, Inertia_det(inertia))

\* Angular momentum components hx, hy, hz
diff_h(self, inertia) ==
    [x |-> AddF(AddF(MulF(inertia.j1, self.x), MulF(inertia.j6, self.y)),
                MulF(inertia.j5, self.z)),
     y |-> AddF(AddF(MulF(inertia.j6, self.x), MulF(inertia.j2, self.y)),
                MulF(inertia.j4, self.z)),
     z |-> AddF(AddF(MulF(inertia.j5, self.x), MulF(inertia.j4, self.y)),
                MulF(inertia.j3, self.z))]

\* Torque-free contribution to "fictitious torque", from the momentum hh
diff_torque_free(self, hh) ==
    Torque_neg(Torque_new(
        SubF(MulF(self.y, hh.z), MulF(self.z, hh.y)),
        SubF(MulF(self.z, hh.x), MulF(self.x, hh.z)),
        SubF(MulF(self.x, hh.y), MulF(self.y, hh.x))))

\* The inverse inertia i applied to the torque and torque-free components t
diff_result(i, t) ==
    [x |-> AddF(AddF(MulF(i.j1, t.x), MulF(i.j6, t.y)), MulF(i.j5, t.z)),
     y |-> AddF(AddF(MulF(i.j6, t.x), MulF(i.j2, t.y)), MulF(i.j4, t.z)),
     z |-> AddF(AddF(MulF(i.j5, t.x), MulF(i.j4, t.y)), MulF(i.j3, t.z))]

\* Variant: a constant acceleration, whatever the torque.
AngularVelocity_drift(self, inertia, torque) == AngularVelocity_new(One, Zero, Zero)

AngularVelocity_diff(self, inertia, torque) ==
    diff_result(Inertia_inverse(inertia),
                Torque_add(torque, diff_torque_free(self, diff_h(self, inertia))))

(***************************************************************************)
(* Integrator::dynamics (integrator/mod.rs).                               *)
(***************************************************************************)
\* Variant: the damping torque with the rates exchanged, c * (w - wd).
DampingTorque_exchanged(state) ==
    Torque_scale(VectorPart(AngularVelocity_sub(state.angular_velocity,
                                                state.damper[1].angular_velocity)),
                 state.damper[1].coefficient)

\* Damping torque (damper ON rigid body): c * (wd - w).
DampingTorque(state) ==
    Torque_scale(VectorPart(AngularVelocity_sub(state.damper[1].angular_velocity,
                                                state.angular_velocity)),
                 state.damper[1].coefficient)

\* Variant: the damping torque left out of the torque on the body.
dynamics_torque_undamped(state) == state.torque

\* Applied torque, updated with the damping torque
dynamics_torque(state) ==
    IF state.damper # None THEN Torque_add(state.torque, DampingTorque(state))
    ELSE state.torque

\* Variant: the damper driven by the torque it applies to the body.
dynamics_wddot_same_sign(state) ==
    IF state.damper # None
    THEN AngularVelocity_diff(state.damper[1].angular_velocity,
                              state.damper[1].inertia,
                              DampingTorque(state))
    ELSE AngularVelocity_new(Zero, Zero, Zero)

\* Damper velocity derivative (if damping present)
dynamics_wddot(state) ==
    IF state.damper # None
    THEN AngularVelocity_diff(state.damper[1].angular_velocity,
                              state.damper[1].inertia,
                              Torque_neg(DampingTorque(state)))
    ELSE AngularVelocity_new(Zero, Zero, Zero)

dynamics(state) ==
    Derivatives(Quaternion_diff(state.quaternion, state.angular_velocity),
                AngularVelocity_diff(state.angular_velocity, state.inertia,
                                     dynamics_torque(state)),
                dynamics_wddot(state))

(***************************************************************************)
(* The update every stage of both integrators performs: the original state *)
(* advanced by s times the given derivatives, attitude renormalized.       *)
(***************************************************************************)
\* Variant: the update detaches the damper.
Advance_detaching(state, k, s) ==
    [state EXCEPT
        !.quaternion = Quaternion_normalize(
            Quaternion_add(state.quaternion, Quaternion_scale(k.qdot, s))),
        !.angular_velocity =
            AngularVelocity_add(state.angular_velocity,
                                AngularVelocity_scale(k.wdot, s)),
        !.damper = None]

Advance(state, k, s) ==
    [state EXCEPT
        !.quaternion = Quaternion_normalize(
            Quaternion_add(state.quaternion, Quaternion_scale(k.qdot, s))),
        !.angular_velocity =
            AngularVelocity_add(state.angular_velocity,
                                AngularVelocity_scale(k.wdot, s)),
        !.damper =
            IF state.damper # None
            THEN Some([state.damper[1] EXCEPT
                    !.angular_velocity =
                        AngularVelocity_add(state.damper[1].angular_velocity,
                                            AngularVelocity_scale(k.wddot, s))])
            ELSE None]

\* Variant: the step leaves the time alone.
StepTime_kept(state, hh) == state.time

\* Step time
StepTime(state, hh) == AddF(state.time, hh)

(***************************************************************************)
(* ForwardEuler::step (integrator/forward_euler.rs).                       *)
(***************************************************************************)
\* Variant: the attitude advanced with the derivative taken at the state
\* whose rates have already been advanced.
ForwardEuler_step_sequential(hh, state) ==
    [Advance(state,
             [dynamics(state) EXCEPT
                 !.qdot = dynamics(Advance(state, dynamics(state), hh)).qdot],
             hh) EXCEPT !.time = StepTime(state, hh)]

ForwardEuler_step(hh, state) ==
    [Advance(state, dynamics(state), hh) EXCEPT !.time = StepTime(state, hh)]

\* The states on which the step calls dynamics, in order.
ForwardEuler_calls(hh, state) == << state >>

(***************************************************************************)
(* RungeKutta4::step (integrator/runge_kutta.rs).                          *)
(***************************************************************************)
\* Variant: the four derivatives with equal weights, (k1 + k2 + k3 + k4) * (1/6).
Combine_unweighted(k1, k2, k3, k4) ==
    Derivatives(
     Quaternion_scale(
         Quaternion_add(Quaternion_add(Quaternion_add(k1.qdot, k2.qdot), k3.qdot),
                        k4.qdot), Sixth),
     AngularVelocity_scale(
         AngularVelocity_add(AngularVelocity_add(AngularVelocity_add(k1.wdot, k2.wdot),
                                                 k3.wdot), k4.wdot), Sixth),
     AngularVelocity_scale(
         AngularVelocity_add(AngularVelocity_add(AngularVelocity_add(k1.wddot, k2.wddot),
                                                 k3.wddot), k4.wddot), Sixth))

\* (k1 + 2*k2 + 2*k3 + k4) * (1/6) for the three derivatives.
Combine(k1, k2, k3, k4) ==
    Derivatives(
     Quaternion_scale(
         Quaternion_add(Quaternion_add(Quaternion_add(k1.qdot,
             Quaternion_scale(k2.qdot, Two)), Quaternion_scale(k3.qdot, Two)),
             k4.qdot), Sixth),
     AngularVelocity_scale(
         AngularVelocity_add(AngularVelocity_add(AngularVelocity_add(k1.wdot,
             AngularVelocity_scale(k2.wdot, Two)), AngularVelocity_scale(k3.wdot, Two)),
             k4.wdot), Sixth),
     AngularVelocity_scale(
         AngularVelocity_add(AngularVelocity_add(AngularVelocity_add(k1.wddot,
             AngularVelocity_scale(k2.wddot, Two)), AngularVelocity_scale(k3.wddot, Two)),
             k4.wddot), Sixth))

\* The final update from the four derivatives, and the step time.
RungeKutta4_final(hh, state, k1, k2, k3, k4) ==
    [Advance(state, Combine(k1, k2, k3, k4), hh) EXCEPT !.time = StepTime(state, hh)]

\* The tentative states k2, k3, k4: the original state advanced by h/2, h/2
\* and h along the derivatives of the previous stage.
RungeKutta4_k2(hh, state, k1) == Advance(state, k1, MulF(Half, hh))

RungeKutta4_k3(hh, state, k2) == Advance(state, k2, MulF(Half, hh))

\* Variant: k4 advanced by h/2, as k2 and k3 are.
RungeKutta4_k4_halved(hh, state, k3) == Advance(state, k3, MulF(Half, hh))

RungeKutta4_k4(hh, state, k3) == Advance(state, k3, hh)

\* Stage 4: the derivatives at k4.
RungeKutta4_stage4(hh, state, k1, k2, k3) ==
    RungeKutta4_final(hh, state, k1, k2, k3, dynamics(RungeKutta4_k4(hh, state, k3)))

\* Stage 3: the derivatives at k3.
RungeKutta4_stage3(hh, state, k1, k2) ==
    RungeKutta4_stage4(hh, state, k1, k2, dynamics(RungeKutta4_k3(hh, state, k2)))

\* Stage 2: the derivatives at k2.
RungeKutta4_stage2(hh, state, k1) ==
    RungeKutta4_stage3(hh, state, k1, dynamics(RungeKutta4_k2(hh, state, k1)))

\* Stage 1: the derivatives at the state itself.
RungeKutta4_step(hh, state) == RungeKutta4_stage2(hh, state, dynamics(state))

\* The states on which the step calls dynamics, in order: state, k2, k3, k4.
RungeKutta4_calls4(hh, state, k2, k3) ==
    << state, k2, k3, RungeKutta4_k4(hh, state, dynamics(k3)) >>

RungeKutta4_calls3(hh, state, k2) ==
    RungeKutta4_calls4(hh, state, k2, RungeKutta4_k3(hh, state, dynamics(k2)))

RungeKutta4_calls(hh, state) ==
    RungeKutta4_calls3(hh, state, RungeKutta4_k2(hh, state, dynamics(state)))

(***************************************************************************)
(* The simulation: a State built by State::new, configured through its     *)
(* field setters, then advanced by the two integrators.                    *)
(*   state     the current State                                           *)
(*   prev      the State handed to the last step (its argument)            *)
(*   start     the State the run started from (before the first step)      *)
(*   h         the step size the integrators were constructed with         *)
(*   n         the number of steps taken                                   *)
(*   op        the last operation                                          *)
(*   pristine  no field has been set since State::new                      *)
(*   args, ret the arguments and the result of the last call of a pure     *)
(*             function (the algebra specifications below); after a step,  *)
(*             args is the sequence of states the step called dynamics on  *)
(***************************************************************************)
VARIABLES state, prev, start, h, n, op, pristine, args, ret

vars == << state, prev, start, h, n, op, pristine, args, ret >>

V3(x, y, z) == [x |-> Num(x), y |-> Num(y), z |-> Num(z)]
Q4(w, x, y, z) == Quaternion_new(Num(w), Num(x), Num(y), Num(z))
Diag(a, b, c) == Inertia_new(Num(a), Num(b), Num(c), Zero, Zero, Zero)

\* Inertia tensors a caller may pass to State::new: isotropic (J0 = 1 and
\* J0 = 2), principal-axis,
\* full, and one singular tensor (det = 0).
InertiaSet ==
    { Diag(1, 1, 1), Diag(2, 2, 2), Diag(2, 1, 3),
      Inertia_new(Num(2), Num(3), Num(4), Num(1), Zero, Num(1)),
      Diag(1, 1, 0) }

StepSet == { Half, One }

\* Attitudes a caller may set: unit and non-unit, all nonzero.
AttitudeSet == { Q4(1, 0, 0, 0), Q4(0, 3, 4, 0), Q4(1, 1, 1, 1) }

RateSet == { V3(0, 0, 0), V3(0, 0, 1), V3(1, 2, 2) }

TorqueSet == { V3(0, 0, 0), V3(0, 0, 1) }

TimeSet == { Zero, Rat(3, 2) }

\* Dampers a caller may attach: KaneDamper::new(I_s, c), its rate as
\* constructed or set afterwards.
DamperSet ==
    { KaneDamper_new(Half, Half),
      [KaneDamper_new(Rat(1, 10), Half) EXCEPT !.angular_velocity = V3(0, 1, 0)] }

NoCall == [f |-> "none"]

StepOps == { "ForwardEuler", "RungeKutta4" }

Init ==
    /\ \E inertia \in InertiaSet : state = State_new(inertia)
    /\ h \in StepSet
    /\ prev = state
    /\ start = state
    /\ n = 0
    /\ op = "new"
    /\ pristine = TRUE
    /\ args = NoCall
    /\ ret = NoCall

\* A field of the State is assigned before the run starts.
Configure(new) ==
    /\ n = 0
    /\ new # state
    /\ state' = new
    /\ prev' = new
    /\ start' = new
    /\ op' = "set"
    /\ pristine' = FALSE
    /\ UNCHANGED << h, n, args, ret >>

SetQuaternion == \E q \in AttitudeSet : Configure([state EXCEPT !.quaternion = q])

SetAngularVelocity ==
    \E w \in RateSet : Configure([state EXCEPT !.angular_velocity = w])

SetTorque == \E t \in TorqueSet : Configure([state EXCEPT !.torque = t])

SetDamper ==
    \E d \in {None} \cup {Some(x) : x \in DamperSet} :
        Configure([state EXCEPT !.damper = d])

SetTime == \E t \in TimeSet : Configure([state EXCEPT !.time = t])

\* new = integrator.step(state): the caller's state is passed by value and
\* stays what it was (prev); the result becomes the current state.
Step(name, new, calls) ==
    /\ n < MaxSteps
    /\ state' = new
    /\ prev' = state
    /\ n' = n + 1
    /\ op' = name
    /\ args' = calls
    /\ UNCHANGED << start, h, pristine, ret >>

StepForwardEuler ==
    Step("ForwardEuler", ForwardEuler_step(h, state), ForwardEuler_calls(h, state))

StepRungeKutta4 ==
    Step("RungeKutta4", RungeKutta4_step(h, state), RungeKutta4_calls(h, state))

Next ==
    \/ SetQuaternion
    \/ SetAngularVelocity
    \/ SetTorque
    \/ SetDamper
    \/ SetTime
    \/ StepForwardEuler
    \/ StepRungeKutta4

Spec == Init /\ [][Next]_vars

(***************************************************************************)
(* Properties of the simulation (specification Spec).                      *)
(***************************************************************************)
ZeroVector == AngularVelocity_new(Zero, Zero, Zero)

\* No component is an infinity or a NaN.
FiniteVector(v) == v.x.k # "nonfinite" /\ v.y.k # "nonfinite" /\ v.z.k # "nonfinite"

\* det(J) is a nonzero number.
Regular(inertia) == IsFin(Inertia_det(inertia)) /\ ~IsZero(Inertia_det(inertia))

\* The attitude has a known, nonzero norm.
NonzeroAttitude(s) ==
    IsFin(Quaternion_norm(s.quaternion)) /\ ~IsZero(Quaternion_norm(s.quaternion))

\* The rates of the body and of the damper are finite.
FiniteRates(s) ==
    /\ FiniteVector(s.angular_velocity)
    /\ s.damper # None => FiniteVector(s.damper[1].angular_velocity)

\* The inertia of the body and of the damper are nonsingular.
RegularInertias(s) ==
    /\ Regular(s.inertia)
    /\ s.damper # None => Regular(s.damper[1].inertia)

\* C1: a step of either integrator returns the time of its argument plus h,
\* and after n steps from a state with time t0 the time is t0 + n*h.
C1_TimeAdvances ==
    /\ op \in StepOps => state.time = AddF(prev.time, h)
    /\ state.time = AddF(start.time, MulF(Num(n), h))

\* C1 witness: a third step, with a damper, in a run that started at 3/2.
C1_Witness ==
    /\ op \in StepOps
    /\ n = 3
    /\ start.time = Rat(3, 2)
    /\ state.damper # None
    /\ state.time = AddF(Rat(3, 2), MulF(Num(3), h))

\* C2 as stated: after a step of either integrator on a state with a nonzero
\* attitude, the attitude of the result has norm 1 (a norm the model cannot
\* write down is not counted against the statement).
C2_UnitAfterStep_AsStated ==
    (op \in StepOps /\ NonzeroAttitude(prev))
        => Quaternion_norm(state.quaternion) \in { One, NotRep }

\* C2 amended: after a step of either integrator on a state with a nonzero
\* attitude, finite rates and nonsingular inertias (body and damper), the
\* attitude of the result has norm 1.
C2_UnitAfterStep ==
    (op \in StepOps /\ NonzeroAttitude(prev) /\ FiniteRates(prev)
        /\ RegularInertias(prev))
        => Quaternion_norm(state.quaternion) \in { One, NotRep }

\* C2 witness: a step turned a spinning body, or rescaled a non-unit
\* attitude, and the result has norm exactly 1.
C2_Witness ==
    /\ op \in StepOps
    /\ NonzeroAttitude(prev) /\ FiniteRates(prev) /\ RegularInertias(prev)
    /\ state.quaternion # prev.quaternion
    /\ Quaternion_norm(state.quaternion) = One

\* C6: a step of either integrator keeps the inertia and the torque, keeps
\* the damper present or absent, keeps the damper's inertia and coefficient,
\* and leaves the state it was given as it was.
C6_StepFrame ==
    [][ n' = n + 1 =>
          /\ state'.inertia = state.inertia
          /\ state'.torque = state.torque
          /\ (state'.damper = None) <=> (state.damper = None)
          /\ state.damper # None =>
                /\ state'.damper[1].inertia = state.damper[1].inertia
                /\ state'.damper[1].coefficient = state.damper[1].coefficient
          /\ prev' = state ]_vars

\* C6 witness: a step changed the rates of a body under torque and of its
\* damper.
C6_Witness ==
    /\ op \in StepOps
    /\ state.damper # None /\ prev.damper # None
    /\ state.torque # ZeroVector
    /\ state.angular_velocity # prev.angular_velocity
    /\ state.damper[1].angular_velocity # prev.damper[1].angular_velocity

\* C10: from State::new(J) with det(J) # 0, after n steps of either
\* integrator the attitude is (1,0,0,0), the angular velocity is zero and
\* the time is n*h.
C10_RestFixedPoint ==
    (pristine /\ Regular(state.inertia)) =>
        /\ state.quaternion = Quaternion_unit
        /\ state.angular_velocity = ZeroVector
        /\ state.time = MulF(Num(n), h)

\* C10 witness: three steps from State::new(J), the last by RungeKutta4.
C10_Witness ==
    /\ pristine /\ Regular(state.inertia)
    /\ n = 3
    /\ op = "RungeKutta4"
    /\ state.time = MulF(Num(3), h)

(***************************************************************************)
(* The quaternion algebra as pure functions (specification SpecQuat):      *)
(* the arguments p, q, r are drawn once, and each action applies the       *)
(* functions of the source to them and records the results in ret.         *)
(***************************************************************************)
Coords == -MaxCoord .. MaxCoord

\* Every quaternion with integer coordinates in Coords.
QuaternionSet == { Q4(w, x, y, z) : w \in Coords, x \in Coords, y \in Coords, z \in Coords }

\* Second and third factors: the units i and j and two general quaternions.
FactorSet == { Q4(0, 1, 0, 0), Q4(0, 0, 1, 0), Q4(1, 2, -1, 3),
               Quaternion_new(Half, Num(-2), Zero, Rat(1, 3)) }

\* Quaternions whose vector part is the vector to rotate.
VectorSet == { Q4(0, 0, 0, 1), Q4(0, -1, 2, 0), Q4(0, 3, -1, 1) }

Rest == State_new(Diag(1, 1, 1))

InitQuat ==
    /\ state = Rest /\ prev = Rest /\ start = Rest
    /\ h = One
    /\ n = 0
    /\ pristine = TRUE
    /\ op = "args"
    /\ \E p \in QuaternionSet, q \in FactorSet, r \in VectorSet :
            args = [r |-> r, q |-> q, p |-> p]
    /\ ret = NoCall

Apply(name, result) ==
    /\ op' = name
    /\ ret' = result
    /\ UNCHANGED << state, prev, start, h, n, pristine, args >>

\* p * q, q * p, (p * q) * r, p * (q * r), p * unit, unit * p
ApplyMul ==
    Apply("mul",
          [pq |-> Quaternion_mul(args.p, args.q),
           qp |-> Quaternion_mul(args.q, args.p),
           pq_r |-> Quaternion_mul(Quaternion_mul(args.p, args.q), args.r),
           p_qr |-> Quaternion_mul(args.p, Quaternion_mul(args.q, args.r)),
           pu |-> Quaternion_mul(args.p, Quaternion_unit),
           up |-> Quaternion_mul(Quaternion_unit, args.p)])

\* p.inv(), p * p.inv(), p.inv() * p, and the same for q
ApplyInv ==
    Apply("inv",
          [inv |-> Quaternion_inv(args.p),
           p_inv |-> Quaternion_mul(args.p, Quaternion_inv(args.p)),
           inv_p |-> Quaternion_mul(Quaternion_inv(args.p), args.p),
           q_inv |-> Quaternion_mul(args.q, Quaternion_inv(args.q)),
           inv_q |-> Quaternion_mul(Quaternion_inv(args.q), args.q)])

\* v.rotate(unit) for the three vector types, unit = p.normalize(), v the
\* vector part of r; with each the sandwich product it takes its result from.
ApplyRotate ==
    /\ args.p # Q4(0, 0, 0, 0)
    /\ Apply("rotate",
          [angular_velocity |->
               AngularVelocity_rotate(VectorPart(args.r), Quaternion_normalize(args.p)),
           torque |->
               Torque_rotate(VectorPart(args.r), Quaternion_normalize(args.p)),
           angular_momentum |->
               AngularMomentum_rotate(VectorPart(args.r), Quaternion_normalize(args.p)),
           angular_velocity_rotated |->
               AngularVelocity_rotated(VectorPart(args.r), Quaternion_normalize(args.p)),
           torque_rotated |->
               Torque_rotated(VectorPart(args.r), Quaternion_normalize(args.p)),
           angular_momentum_rotated |->
               AngularMomentum_rotated(VectorPart(args.r), Quaternion_normalize(args.p)),
           unit |-> Quaternion_normalize(args.p)])

\* The attitude update of ForwardEuler::step for attitude p, a step size hh
\* and a body rate w (the vector part of q or of r): p.diff(w),
\* p + p.diff(w).scale(hh) before it is normalized, and the step's result on
\* a body at rest given that attitude and rate.
ApplyEulerUpdate ==
    \E hh \in StepSet, w \in { VectorPart(args.q), VectorPart(args.r) } :
        Apply("euler",
              [euler_h |-> hh,
               euler_w |-> w,
               euler_diff |-> Quaternion_diff(args.p, w),
               euler_update |->
                   Quaternion_add(args.p,
                                  Quaternion_scale(Quaternion_diff(args.p, w), hh)),
               euler_stepped |->
                   ForwardEuler_step(hh, [Rest EXCEPT !.quaternion = args.p,
                                                      !.angular_velocity = w])])

NextQuat ==
    \/ ApplyMul
    \/ ApplyInv
    \/ ApplyRotate
    \/ ApplyEulerUpdate

SpecQuat == InitQuat /\ [][NextQuat]_vars

(***************************************************************************)
(* Properties of the quaternion algebra (specification SpecQuat).          *)
(***************************************************************************)
\* x*x + y*y + z*z
SquaredLength(v) == AddF(AddF(MulF(v.x, v.x), MulF(v.y, v.y)), MulF(v.z, v.z))

\* C7: quaternion multiplication is associative, (1,0,0,0) is a two-sided
\* identity, and the product does not commute: i*j = k and j*i = -k.
C7_HamiltonProduct ==
    op = "mul" =>
        /\ ret.pq_r = ret.p_qr
        /\ ret.pu = args.p
        /\ ret.up = args.p
        /\ (args.p = Q4(0, 1, 0, 0) /\ args.q = Q4(0, 0, 1, 0)) =>
                /\ ret.pq = Q4(0, 0, 0, 1)
                /\ ret.qp = Q4(0, 0, 0, -1)

\* C7 witness: the products of i and j were taken and differ.
C7_Witness ==
    /\ op = "mul"
    /\ args.p = Q4(0, 1, 0, 0) /\ args.q = Q4(0, 0, 1, 0)
    /\ ret.pq # ret.qp
    /\ ret.pq_r = ret.p_qr

\* C8: a quaternion of nonzero norm times its inverse, on either side, is
\* (1,0,0,0).
C8_Inverse ==
    op = "inv" =>
        /\ args.p # Q4(0, 0, 0, 0) =>
                ret.p_inv = Quaternion_unit /\ ret.inv_p = Quaternion_unit
        /\ ret.q_inv = Quaternion_unit /\ ret.inv_q = Quaternion_unit

\* C8 witness: the inverse of a quaternion of norm sqrt(3) was taken and
\* multiplied back.
C8_Witness ==
    /\ op = "inv"
    /\ args.p = Q4(1, 1, -1, 0)
    /\ ret.inv = Quaternion_new(Rat(1, 3), Rat(-1, 3), Rat(1, 3), Zero)
    /\ ret.p_inv = Quaternion_unit

\* C9: for a unit quaternion, rotate keeps the squared length of an angular
\* velocity, a torque and an angular momentum, and the scalar part of the
\* sandwich product it discards is zero.
C9_RotatePreservesLength ==
    (op = "rotate" /\ Quaternion_norm(ret.unit) = One) =>
        /\ SquaredLength(ret.angular_velocity) = SquaredLength(VectorPart(args.r))
        /\ SquaredLength(ret.torque) = SquaredLength(VectorPart(args.r))
        /\ SquaredLength(ret.angular_momentum) = SquaredLength(VectorPart(args.r))
        /\ ret.angular_velocity_rotated.w = Zero
        /\ ret.torque_rotated.w = Zero
        /\ ret.angular_momentum_rotated.w = Zero

\* C9 witness: a vector was turned into a different vector by a unit
\* quaternion with irrational coordinates.
C9_Witness ==
    /\ op = "rotate"
    /\ args.p = Q4(1, 1, -1, 0)
    /\ args.r = Q4(0, 3, -1, 1)
    /\ Quaternion_norm(ret.unit) = One
    /\ ret.torque # VectorPart(args.r)
    /\ SquaredLength(ret.torque) = Num(11)

(***************************************************************************)
(* The dynamics as pure functions (specification SpecDyn): a State is      *)
(* drawn once, and the actions apply AngularVelocity::diff and             *)
(* Integrator::dynamics to it and record the result in ret.                *)
(***************************************************************************)
DynInertiaSet ==
    InertiaSet \cup { Inertia_new(Num(4), Num(5), Num(6), Num(1), Num(2), Num(-1)) }

DynRateSet ==
    { V3(0, 0, 0), V3(1, 0, 0), V3(1, 2, -1),
      AngularVelocity_new(Half, Num(-1), Num(3)) }

DynTorqueSet == { V3(0, 0, 0), V3(0, 0, 1), Torque_new(One, Num(-2), Half) }

DynDamperRateSet == { V3(0, 0, 0), V3(2, -1, 1) }

\* No damper; KaneDamper::new(I_s, c) at rest or spinning; and a damper whose
\* inertia field was replaced by an anisotropic tensor.
DynDamperSet ==
    { None }
    \cup { Some([KaneDamper_new(i, c) EXCEPT !.angular_velocity = wd]) :
             i \in { Half, Num(3) }, c \in { Half, Two }, wd \in DynDamperRateSet }
    \cup { Some([KaneDamper_new(One, Two) EXCEPT
                    !.inertia = Diag(2, 1, 3), !.angular_velocity = V3(2, -1, 1)]) }

InitDyn ==
    /\ \E inertia \in DynInertiaSet, q \in { Q4(1, 0, 0, 0), Q4(1, 1, 1, 1) },
          w \in DynRateSet, t \in DynTorqueSet, d \in DynDamperSet :
            state = [State_new(inertia) EXCEPT
                        !.quaternion = q, !.angular_velocity = w,
                        !.torque = t, !.damper = d]
    /\ prev = state
    /\ start = state
    /\ h = One
    /\ n = 0
    /\ pristine = FALSE
    /\ op = "state"
    /\ args = NoCall
    /\ ret = NoCall

\* state.angular_velocity.diff(state.inertia, state.torque)
ApplyDiff ==
    Apply("diff",
          AngularVelocity_diff(state.angular_velocity, state.inertia, state.torque))

\* integrator.dynamics(state)
ApplyDynamics == Apply("dynamics", dynamics(state))

NextDyn ==
    \/ ApplyDiff
    \/ ApplyDynamics

SpecDyn == InitDyn /\ [][NextDyn]_vars

(***************************************************************************)
(* Properties of the dynamics (specification SpecDyn).                     *)
(***************************************************************************)
\* J * v for the symmetric matrix [[J1 J6 J5], [J6 J2 J4], [J5 J4 J3]].
MatVec(m, v) ==
    [x |-> AddF(AddF(MulF(m.j1, v.x), MulF(m.j6, v.y)), MulF(m.j5, v.z)),
     y |-> AddF(AddF(MulF(m.j6, v.x), MulF(m.j2, v.y)), MulF(m.j4, v.z)),
     z |-> AddF(AddF(MulF(m.j5, v.x), MulF(m.j4, v.y)), MulF(m.j3, v.z))]

\* a x b
Cross(a, b) ==
    [x |-> SubF(MulF(a.y, b.z), MulF(a.z, b.y)),
     y |-> SubF(MulF(a.z, b.x), MulF(a.x, b.z)),
     z |-> SubF(MulF(a.x, b.y), MulF(a.y, b.x))]

VectorSum(a, b) == [x |-> AddF(a.x, b.x), y |-> AddF(a.y, b.y), z |-> AddF(a.z, b.z)]

VectorDifference(a, b) ==
    [x |-> SubF(a.x, b.x), y |-> SubF(a.y, b.y), z |-> SubF(a.z, b.z)]

Scaled(c, v) == [x |-> MulF(c, v.x), y |-> MulF(c, v.y), z |-> MulF(c, v.z)]

\* The torque that gives a body of inertia m and rate w the acceleration a:
\* m*a + w x (m*w).
EulerTorque(m, w, a) == VectorSum(MatVec(m, a), Cross(w, MatVec(m, w)))

BasisSet == { V3(1, 0, 0), V3(0, 1, 0), V3(0, 0, 1) }

\* C3: for det(J) # 0 the result wdot of diff satisfies
\* J*wdot + w x (J*w) = tau, and the inverse diff computes is the inverse
\* of J: J * (Jinv * e) = e for the three basis vectors e.
C3_EulerEquation ==
    (op = "diff" /\ Regular(state.inertia)) =>
        /\ EulerTorque(state.inertia, state.angular_velocity, ret) = state.torque
        /\ \A e \in BasisSet :
              MatVec(state.inertia, MatVec(Inertia_inverse(state.inertia), e)) = e

\* C3 witness: diff was applied with a full inertia tensor, a general rate
\* and a general torque.
C3_Witness ==
    /\ op = "diff"
    /\ state.inertia = Inertia_new(Num(4), Num(5), Num(6), Num(1), Num(2), Num(-1))
    /\ state.angular_velocity = V3(1, 2, -1)
    /\ state.torque = Torque_new(One, Num(-2), Half)
    /\ FiniteVector(ret) /\ ret # ZeroVector

\* c * (w_d - w) for the damper of state s.
Coupling(s) ==
    Scaled(s.damper[1].coefficient,
           VectorDifference(s.damper[1].angular_velocity, s.angular_velocity))

\* C4: with a damper, dynamics computes the body derivative with the torque
\* s.torque + c*(w_d - w) and the damper derivative with -c*(w_d - w), so
\* that the torques the two accelerations stand for sum to the applied
\* torque; without a damper it computes the body derivative with s.torque
\* and returns a zero damper derivative.
C4_DamperCoupling ==
    op = "dynamics" =>
        /\ state.damper # None =>
            /\ ret.wdot = AngularVelocity_diff(state.angular_velocity, state.inertia,
                              VectorSum(state.torque, Coupling(state)))
            /\ ret.wddot = AngularVelocity_diff(state.damper[1].angular_velocity,
                              state.damper[1].inertia,
                              Scaled(Num(-1), Coupling(state)))
            /\ RegularInertias(state) =>
                  VectorSum(EulerTorque(state.inertia, state.angular_velocity, ret.wdot),
                            EulerTorque(state.damper[1].inertia,
                                        state.damper[1].angular_velocity, ret.wddot))
                    = state.torque
        /\ state.damper = None =>
            /\ ret.wdot = AngularVelocity_diff(state.angular_velocity, state.inertia,
                                               state.torque)
            /\ ret.wddot = ZeroVector

\* C4 witness: dynamics was applied to a body under torque whose damper
\* turns at another rate.
C4_Witness ==
    /\ op = "dynamics"
    /\ state.damper # None
    /\ RegularInertias(state)
    /\ state.torque # ZeroVector
    /\ Coupling(state) # ZeroVector
    /\ ret.wddot # ZeroVector
    /\ ret.wdot # AngularVelocity_diff(state.angular_velocity, state.inertia,
                                       state.torque)

\* The damper d is what KaneDamper::new(I_s, c) builds, I_s # 0, whatever
\* its rate.
IsKaneDamper(d) ==
    /\ d.inertia = Inertia_new(d.inertia.j1, d.inertia.j1, d.inertia.j1,
                               Zero, Zero, Zero)
    /\ IsFin(d.inertia.j1) /\ ~IsZero(d.inertia.j1)

\* C5: for a damper built by KaneDamper::new(I_s, c), I_s # 0, the damper
\* derivative dynamics returns is c*(w - w_d)/I_s.
C5_KaneDamperDerivative ==
    (op = "dynamics" /\ state.damper # None /\ IsKaneDamper(state.damper[1])) =>
        ret.wddot =
            [x |-> DivF(MulF(state.damper[1].coefficient,
                             SubF(state.angular_velocity.x,
                                  state.damper[1].angular_velocity.x)),
                        state.damper[1].inertia.j1),
             y |-> DivF(MulF(state.damper[1].coefficient,
                             SubF(state.angular_velocity.y,
                                  state.damper[1].angular_velocity.y)),
                        state.damper[1].inertia.j1),
             z |-> DivF(MulF(state.damper[1].coefficient,
                             SubF(state.angular_velocity.z,
                                  state.damper[1].angular_velocity.z)),
                        state.damper[1].inertia.j1)]

\* C5 witness: dynamics was applied with the damper KaneDamper::new(3, 2)
\* spinning at (2,-1,1) in a body turning at (1,2,-1).
C5_Witness ==
    /\ op = "dynamics"
    /\ state.damper =
          Some([KaneDamper_new(Num(3), Two) EXCEPT !.angular_velocity = V3(2, -1, 1)])
    /\ state.angular_velocity = V3(1, 2, -1)
    /\ ret.wddot = AngularVelocity_new(Rat(-2, 3), Num(2), Rat(-4, 3))

(***************************************************************************)
(* Properties of runs with an isotropic body (specification Spec).         *)
(***************************************************************************)
\* J = diag(J0, J0, J0) with J0 a nonzero number.
IsIsotropic(inertia) ==
    /\ inertia = Inertia_new(inertia.j1, inertia.j1, inertia.j1, Zero, Zero, Zero)
    /\ IsFin(inertia.j1) /\ ~IsZero(inertia.j1)

\* C11: for J = diag(J0, J0, J0), J0 # 0, no damper and a constant torque
\* tau, the angular velocity after n steps of either integrator from w0 is
\* w0 + n*h*tau/J0 (constant when tau = 0).
C11_IsotropicSpinUp ==
    (IsIsotropic(state.inertia) /\ state.damper = None) =>
        state.angular_velocity =
            VectorSum(start.angular_velocity,
                      Scaled(DivF(MulF(Num(n), h), state.inertia.j1), start.torque))

\* C11 witness: three steps, the last by RungeKutta4, of a body with J0 = 2
\* spun up from rest by the torque (0,0,1).
C11_Witness ==
    /\ op = "RungeKutta4"
    /\ n = 3
    /\ state.inertia = Diag(2, 2, 2)
    /\ state.damper = None
    /\ start.angular_velocity = ZeroVector
    /\ state.torque = V3(0, 0, 1)
    /\ state.angular_velocity = AngularVelocity_new(Zero, Zero, MulF(Rat(3, 2), h))

\* a < b for two rational numbers (neither is decided for other values).
Comparable(a, b) == IsFin(a) /\ IsFin(b) /\ a.r = 1 /\ b.r = 1

Less(a, b) == Comparable(a, b) /\ a.n * b.d < b.n * a.d

\* |a| < |b| and |a| <= |b| for two rational numbers.
Smaller(a, b) == Comparable(a, b) /\ Abs(a.n) * b.d < Abs(b.n) * a.d

NotLarger(a, b) == Comparable(a, b) /\ Abs(a.n) * b.d <= Abs(b.n) * a.d

\* |u| < |v|, decided from the components: none is larger in magnitude and
\* one is smaller.
Shorter(u, v) ==
    /\ NotLarger(u.x, v.x) /\ NotLarger(u.y, v.y) /\ NotLarger(u.z, v.z)
    /\ Smaller(u.x, v.x) \/ Smaller(u.y, v.y) \/ Smaller(u.z, v.z)

\* |u| >= |v|, decided from the components: none is smaller in magnitude.
NotShorter(u, v) ==
    NotLarger(v.x, u.x) /\ NotLarger(v.y, u.y) /\ NotLarger(v.z, u.z)

KnownVector(v) == IsFin(v.x) /\ IsFin(v.y) /\ IsFin(v.z)

\* Both rates of a damped state are numbers the model can write.
KnownRates(s) ==
    KnownVector(s.angular_velocity) /\ KnownVector(s.damper[1].angular_velocity)

\* Isotropic body carrying a Kane damper with c > 0, no applied torque.
KaneDamped(s) ==
    /\ IsIsotropic(s.inertia)
    /\ s.damper # None
    /\ IsKaneDamper(s.damper[1])
    /\ Less(Zero, s.damper[1].coefficient)
    /\ s.torque = ZeroVector

\* w - w_d
RelativeRate(s) ==
    VectorDifference(s.angular_velocity, s.damper[1].angular_velocity)

\* J0*w + I_s*w_d
TotalMomentum(s) ==
    VectorSum(Scaled(s.inertia.j1, s.angular_velocity),
              Scaled(s.damper[1].inertia.j1, s.damper[1].angular_velocity))

\* J0*w + I_s*w_d is the same in s as in s0, written after division by I_s:
\* (J0/I_s)*(w - w0) = w_d0 - w_d.
SameMomentum(s0, s) ==
    Scaled(DivF(s0.inertia.j1, s0.damper[1].inertia.j1),
           VectorDifference(s.angular_velocity, s0.angular_velocity)) =
        VectorDifference(s0.damper[1].angular_velocity, s.damper[1].angular_velocity)

\* z = h*c*(1/J0 + 1/I_s): the relative rate obeys d(w - w_d)/dt = -(z/h)(w - w_d).
Stiffness(s, hh) ==
    MulF(MulF(hh, s.damper[1].coefficient),
         AddF(InvF(s.inertia.j1), InvF(s.damper[1].inertia.j1)))

\* Growth factor of the classical fourth-order Runge-Kutta method on x' = -(z/h) x:
\* 1 - z + z^2/2 - z^3/6 + z^4/24.
RK4Growth(z) ==
    AddF(SubF(AddF(SubF(One, z), MulF(Half, MulF(z, z))),
              MulF(Sixth, MulF(z, MulF(z, z)))),
         MulF(Rat(1, 24), MulF(MulF(z, z), MulF(z, z))))

\* C12 as stated: for an isotropic body with a Kane damper, c > 0 and no
\* torque, every RungeKutta4 step strictly decreases |w - w_d| (unless it is
\* already zero), whatever the step size (so no component of w - w_d keeps
\* or increases its magnitude while the others do the same), and the total angular momentum
\* J0*w + I_s*w_d is the same in every reachable state.
C12_KaneDamping_AsStated ==
    (op = "RungeKutta4" /\ KaneDamped(prev) /\ KnownRates(start)
        /\ KnownRates(prev) /\ KnownRates(state)) =>
        /\ RelativeRate(prev) # ZeroVector =>
               ~NotShorter(RelativeRate(state), RelativeRate(prev))
        /\ SameMomentum(start, state)

\* C12: for an isotropic body with a Kane damper, c > 0 and no torque, the
\* total angular momentum J0*w + I_s*w_d is the same in every reachable
\* state, and a RungeKutta4 step multiplies w - w_d by
\* R = 1 - z + z^2/2 - z^3/6 + z^4/24, z = h*c*(1/J0 + 1/I_s); so |w - w_d|
\* strictly decreases at the step when |R| < 1 and w # w_d.
C12_KaneDamping ==
    (KaneDamped(start) /\ KnownRates(start) /\ KnownRates(state)) =>
        /\ SameMomentum(start, state)
        /\ (op = "RungeKutta4" /\ KnownRates(prev)
               /\ IsFin(RK4Growth(Stiffness(prev, h)))) =>
              /\ RelativeRate(state) =
                     Scaled(RK4Growth(Stiffness(prev, h)), RelativeRate(prev))
              /\ (/\ Smaller(RK4Growth(Stiffness(prev, h)), One)
                  /\ RelativeRate(prev) # ZeroVector) =>
                     Shorter(RelativeRate(state), RelativeRate(prev))

\* C12 witness: a second RungeKutta4 step of a damped isotropic body whose
\* relative rate was nonzero and has decreased at both steps, the momentum
\* being what it was at the start.
C12_Witness ==
    /\ op = "RungeKutta4"
    /\ n = 2
    /\ KaneDamped(start) /\ KnownRates(start) /\ KnownRates(prev) /\ KnownRates(state)
    /\ Smaller(RK4Growth(Stiffness(prev, h)), One)
    /\ RelativeRate(state) # ZeroVector
    /\ Shorter(RelativeRate(state), RelativeRate(prev))
    /\ Shorter(RelativeRate(prev), RelativeRate(start))
    /\ SameMomentum(start, state)
    /\ TotalMomentum(start) # ZeroVector

\* a <= b for two rational numbers.
LessEq(a, b) == Comparable(a, b) /\ a.n * b.d <= b.n * a.d

Dot(a, b) == AddF(AddF(MulF(a.x, b.x), MulF(a.y, b.y)), MulF(a.z, b.z))

\* Total rotational kinetic energy (1/2) w^T J w + (1/2) w_d^T I w_d.
KineticEnergy(s) ==
    MulF(Half,
         AddF(Dot(s.angular_velocity, MatVec(s.inertia, s.angular_velocity)),
              Dot(s.damper[1].angular_velocity,
                  MatVec(s.damper[1].inertia, s.damper[1].angular_velocity))))

\* Damper present with c > 0, no applied torque.
Damped(s) ==
    /\ s.damper # None
    /\ Less(Zero, s.damper[1].coefficient)
    /\ s.torque = ZeroVector

\* Factor by which one step of the integrator multiplies w - w_d for an
\* isotropic body with a Kane damper: 1 - z for ForwardEuler, RK4Growth(z)
\* for RungeKutta4.
Growth(name, z) == IF name = "ForwardEuler" THEN SubF(One, z) ELSE RK4Growth(z)

\* C13 as stated: with a damper, c > 0 and no torque, for every state and
\* either integrator the kinetic energy after the step is at most the energy
\* before it, and strictly less when w # w_d.
C13_EnergyDecay_AsStated ==
    (op \in StepOps /\ Damped(prev)
        /\ Comparable(KineticEnergy(state), KineticEnergy(prev))) =>
        /\ LessEq(KineticEnergy(state), KineticEnergy(prev))
        /\ RelativeRate(prev) # ZeroVector =>
               Less(KineticEnergy(state), KineticEnergy(prev))

\* C13: for an isotropic body with a Kane damper, c > 0 and no torque, a step
\* of either integrator whose growth factor rho (1 - z for ForwardEuler,
\* 1 - z + z^2/2 - z^3/6 + z^4/24 for RungeKutta4, z = h*c*(1/J0 + 1/I_s))
\* has |rho| <= 1 does not increase the kinetic energy, and strictly decreases
\* it when |rho| < 1 and w # w_d.
C13_EnergyDecay ==
    (op \in StepOps /\ KaneDamped(prev)
        /\ Comparable(KineticEnergy(state), KineticEnergy(prev))
        /\ NotLarger(Growth(op, Stiffness(prev, h)), One)) =>
        /\ LessEq(KineticEnergy(state), KineticEnergy(prev))
        /\ (Smaller(Growth(op, Stiffness(prev, h)), One)
               /\ RelativeRate(prev) # ZeroVector) =>
               Less(KineticEnergy(state), KineticEnergy(prev))

\* C13 witness: a ForwardEuler step following a RungeKutta4 step of a damped
\* isotropic body, both within the stable range, the energy having strictly
\* decreased at each.
C13_Witness ==
    /\ op = "ForwardEuler"
    /\ n = 2
    /\ KaneDamped(prev)
    /\ Smaller(Growth(op, Stiffness(prev, h)), One)
    /\ Smaller(RK4Growth(Stiffness(prev, h)), One)
    /\ RelativeRate(prev) # ZeroVector
    /\ Less(KineticEnergy(state), KineticEnergy(prev))
    /\ Less(KineticEnergy(prev), KineticEnergy(start))
    /\ Less(Zero, KineticEnergy(state))

(***************************************************************************)
(* The two integration schemes, written out from the derivatives that      *)
(* dynamics returns (specification Spec).                                  *)
(***************************************************************************)
QuaternionSum(a, b) ==
    [w |-> AddF(a.w, b.w), x |-> AddF(a.x, b.x),
     y |-> AddF(a.y, b.y), z |-> AddF(a.z, b.z)]

QuaternionScaled(c, q) ==
    [w |-> MulF(c, q.w), x |-> MulF(c, q.x), y |-> MulF(c, q.y), z |-> MulF(c, q.z)]

SquaredNorm(q) ==
    AddF(AddF(AddF(MulF(q.w, q.w), MulF(q.x, q.x)), MulF(q.y, q.y)), MulF(q.z, q.z))

\* A unit quaternion, when its norm is a number the model can write.
Normalized(q) == IsFin(SquaredNorm(q)) => SquaredNorm(q) = One

\* s with a times the derivatives k added to the attitude (then normalized),
\* the body rate and, iff present, the damper rate; everything else as in s.
Tentative(s, k, a) ==
    [inertia |-> s.inertia,
     quaternion |-> Quaternion_normalize(
                        QuaternionSum(s.quaternion, QuaternionScaled(a, k.qdot))),
     angular_velocity |-> VectorSum(s.angular_velocity, Scaled(a, k.wdot)),
     torque |-> s.torque,
     damper |-> IF s.damper = None THEN None
                ELSE Some([inertia |-> s.damper[1].inertia,
                           angular_velocity |->
                               VectorSum(s.damper[1].angular_velocity,
                                         Scaled(a, k.wddot)),
                           coefficient |-> s.damper[1].coefficient]),
     time |-> s.time]

\* (k1 + 2*k2 + 2*k3 + k4)/6 for each of the three derivatives.
Weighted(k1, k2, k3, k4) ==
    [qdot |-> QuaternionScaled(Sixth,
                  QuaternionSum(QuaternionSum(QuaternionSum(k1.qdot,
                      QuaternionScaled(Two, k2.qdot)),
                      QuaternionScaled(Two, k3.qdot)), k4.qdot)),
     wdot |-> Scaled(Sixth,
                  VectorSum(VectorSum(VectorSum(k1.wdot, Scaled(Two, k2.wdot)),
                                      Scaled(Two, k3.wdot)), k4.wdot)),
     wddot |-> Scaled(Sixth,
                  VectorSum(VectorSum(VectorSum(k1.wddot, Scaled(Two, k2.wddot)),
                                      Scaled(Two, k3.wddot)), k4.wddot))]

\* C14: RungeKutta4::step calls dynamics exactly four times: on the input
\* state s, then on three tentative states, each built from s itself by
\* adding h/2, h/2 and h times the derivatives of the previous call to the
\* attitude, the body rate and (if present) the damper rate, every tentative
\* attitude normalized; the result is s advanced by h times
\* (k1 + 2*k2 + 2*k3 + k4)/6, attitude normalized, time advanced by h.
C14_RungeKutta4Stages ==
    op = "RungeKutta4" =>
        /\ Len(args) = 4
        /\ args[1] = prev
        /\ args[2] = Tentative(prev, dynamics(args[1]), MulF(Half, h))
        /\ args[3] = Tentative(prev, dynamics(args[2]), MulF(Half, h))
        /\ args[4] = Tentative(prev, dynamics(args[3]), h)
        /\ \A i \in 2..4 : Normalized(args[i].quaternion)
        /\ state = [Tentative(prev,
                              Weighted(dynamics(args[1]), dynamics(args[2]),
                                       dynamics(args[3]), dynamics(args[4])), h)
                       EXCEPT !.time = AddF(prev.time, h)]
        /\ Normalized(state.quaternion)

\* C14 witness: a RungeKutta4 step of a spinning, torqued body with a damper
\* and a non-unit attitude, whose second and third tentative attitudes are
\* numbers the model can write, differ from each other and from the input
\* attitude and have unit norm, and whose body and damper rates differ from
\* each call of dynamics to the next.
C14_Witness ==
    /\ op = "RungeKutta4"
    /\ prev.damper # None
    /\ SquaredNorm(prev.quaternion) # One
    /\ IsFin(SquaredNorm(args[2].quaternion)) /\ IsFin(SquaredNorm(args[3].quaternion))
    /\ SquaredNorm(args[2].quaternion) = One /\ SquaredNorm(args[3].quaternion) = One
    /\ args[2].quaternion # args[3].quaternion
    /\ args[2].quaternion # Quaternion_normalize(prev.quaternion)
    /\ \A i \in 1..4 : KnownRates(args[i])
    /\ \A i \in 1..3 : args[i].angular_velocity # args[i + 1].angular_velocity
    /\ \A i \in 1..3 : args[i].damper # args[i + 1].damper
    /\ state.damper # None

\* C15: ForwardEuler::step calls dynamics exactly once, on the input state
\* s, and uses its three derivatives for all updates: attitude
\* normalize(s.quaternion + h*qdot), body rate s.angular_velocity + h*wdot,
\* damper rate (iff a damper is present) old rate + h*wddot; nothing is
\* computed from an already updated component.
C15_ForwardEulerUpdate ==
    op = "ForwardEuler" =>
        /\ args = << prev >>
        /\ state.quaternion =
               Quaternion_normalize(
                   QuaternionSum(prev.quaternion,
                                 QuaternionScaled(h, dynamics(prev).qdot)))
        /\ state.angular_velocity =
               VectorSum(prev.angular_velocity, Scaled(h, dynamics(prev).wdot))
        /\ prev.damper = None <=> state.damper = None
        /\ prev.damper # None =>
               /\ state.damper[1].angular_velocity =
                      VectorSum(prev.damper[1].angular_velocity,
                                Scaled(h, dynamics(prev).wddot))
               /\ state.damper[1].inertia = prev.damper[1].inertia
               /\ state.damper[1].coefficient = prev.damper[1].coefficient
        /\ state.inertia = prev.inertia /\ state.torque = prev.torque

\* C15 witness: a ForwardEuler step of a spinning body with a damper whose
\* attitude, body rate and damper rate all changed and are numbers the model
\* can write.
C15_Witness ==
    /\ op = "ForwardEuler"
    /\ prev.damper # None
    /\ KnownRates(state)
    /\ IsFin(SquaredNorm(state.quaternion))
    /\ state.quaternion # prev.quaternion
    /\ state.angular_velocity # prev.angular_velocity
    /\ state.damper[1].angular_velocity # prev.damper[1].angular_velocity
    /\ dynamics(prev).qdot # dynamics(state).qdot

(***************************************************************************)
(* The un-normalized forward-Euler attitude update (specification          *)
(* SpecQuat).                                                              *)
(***************************************************************************)
Dot4(a, b) ==
    AddF(AddF(AddF(MulF(a.w, b.w), MulF(a.x, b.x)), MulF(a.y, b.y)), MulF(a.z, b.z))

\* C16: the attitude derivative q.diff(w) is orthogonal to q, so for every
\* quaternion q, rate w and step h,
\* |q + h*q.diff(w)|^2 = |q|^2 * (1 + (h^2/4)*|w|^2) >= |q|^2; hence for a
\* nonzero attitude ForwardEuler::step normalizes a quaternion of nonzero
\* norm and returns a finite unit attitude.
C16_EulerUpdateNorm ==
    op = "euler" =>
        /\ Dot4(args.p, ret.euler_diff) = Zero
        /\ SquaredNorm(ret.euler_update) =
               MulF(SquaredNorm(args.p),
                    AddF(One, MulF(MulF(Rat(1, 4), MulF(ret.euler_h, ret.euler_h)),
                                   SquaredLength(ret.euler_w))))
        /\ LessEq(SquaredNorm(args.p), SquaredNorm(ret.euler_update))
        /\ ret.euler_stepped.quaternion = Quaternion_normalize(ret.euler_update)
        /\ args.p # Q4(0, 0, 0, 0) =>
               /\ Less(Zero, SquaredNorm(ret.euler_update))
               /\ ~IsZero(Quaternion_norm(ret.euler_update))
               /\ IsFin(SquaredNorm(ret.euler_stepped.quaternion))
               /\ SquaredNorm(ret.euler_stepped.quaternion) = One

\* C16 witness: the update of a nonzero, non-unit attitude with all four
\* coordinates nonzero by a rate with three nonzero coordinates and h = 1/2:
\* strictly longer than the attitude, and normalized by the step.
C16_Witness ==
    /\ op = "euler"
    /\ args.p = Q4(1, -1, 1, 1)
    /\ ret.euler_h = Half
    /\ ret.euler_w = VectorPart(Q4(0, 3, -1, 1))
    /\ Less(SquaredNorm(args.p), SquaredNorm(ret.euler_update))
    /\ SquaredNorm(ret.euler_update) = Rat(27, 4)
    /\ SquaredNorm(ret.euler_stepped.quaternion) = One

=============================================================================
